---- MODULE Spec2Model ----
(***************************************************************************)
(* MediFind: the staged hospital search of get_hospitals.py and the HTTP   *)
(* handler of app.py.                                                       *)
(*                                                                          *)
(* Strings the code inspects (addresses, area names, labels) are sequences  *)
(* of one-character strings, so that lower(), "in", join and the f-strings  *)
(* are computed and not assumed.  Python's None is the record Null (for a   *)
(* string) or NoNum (for a number); a present value v is Str(v) or Num(v).  *)
(***************************************************************************)
EXTENDS Integers, Sequences, FiniteSets, TLC

(***************************************************************************)
(* Bounds of the model.                                                     *)
(***************************************************************************)
\* ticks of the model clock per second of wall time
TicksPerSecond == 2
\* how many facilities the long, fully addressed node list has beyond the cap
ExtraNodes == 2

(***************************************************************************)
(* Program constants.                                                       *)
(***************************************************************************)
\* a RateLimiter built without a delay
NoDelay == 1 - 1
min_delay_seconds == 1
\* a gate that lets two callers in
TwoPermits == 1 + 1
\* threading.Semaphore(1)
SemaphoreValue == 1
max_workers == 5
max_radius == 50000
radius_step == 5000
first_radius == 5000
MaxResults == 10
\* float('inf'): larger than every distance of the model
Inf == 1000000

(***************************************************************************)
(* Python values.                                                           *)
(***************************************************************************)
Null == [some |-> FALSE, v |-> <<>>]
Str(s) == [some |-> TRUE, v |-> s]
NoNum == [some |-> FALSE, v |-> 0]
Num(n) == [some |-> TRUE, v |-> n]
NoCoords == [some |-> FALSE, v |-> <<0, 0>>]
Coords(lat, lon) == [some |-> TRUE, v |-> <<lat, lon>>]

\* truthiness of an optional string: None and "" are falsy
Truthy(o) == o.some /\ o.v # <<>>
\* truthiness of a number: 0 is falsy
TruthyNum(n) == n # 0

UpperCase == <<"A", "B", "C", "D", "E", "F", "G", "H", "I", "J", "K", "L", "M",
               "N", "O", "P", "Q", "R", "S", "T", "U", "V", "W", "X", "Y", "Z">>
LowerCase == <<"a", "b", "c", "d", "e", "f", "g", "h", "i", "j", "k", "l", "m",
               "n", "o", "p", "q", "r", "s", "t", "u", "v", "w", "x", "y", "z">>

LowerChar(c) ==
    IF \E i \in 1..26 : UpperCase[i] = c
    THEN LowerCase[CHOOSE i \in 1..26 : UpperCase[i] = c]
    ELSE c

\* str.lower()
Lower(s) == [i \in 1..Len(s) |-> LowerChar(s[i])]

\* sub in s
Contains(sub, s) ==
    \E i \in 0..(Len(s) - Len(sub)) : SubSeq(s, i + 1, i + Len(sub)) = sub

DigitChar == <<"0", "1", "2", "3", "4", "5", "6", "7", "8", "9">>

RECURSIVE Digits(_)
\* str(n) of a natural number
Digits(n) ==
    IF n < 10 THEN <<DigitChar[n + 1]>>
    ELSE Digits(n \div 10) \o <<DigitChar[(n % 10) + 1]>>

RECURSIVE Join(_)
\* ", ".join(parts)
Join(parts) ==
    IF parts = <<>> THEN <<>>
    ELSE IF Len(parts) = 1 THEN parts[1]
    ELSE parts[1] \o <<",", " ">> \o Join(Tail(parts))

\* s[:n]
Take(s, n) == SubSeq(s, 1, IF Len(s) < n THEN Len(s) ELSE n)

Abs(x) == IF x < 0 THEN -x ELSE x

\* geodesic(a, b).kilometers on the model's grid: 0 exactly when a = b
geodesic(a, b) == Abs(a[1] - b[1]) + Abs(a[2] - b[2])

(***************************************************************************)
(* String literals of the program.                                          *)
(***************************************************************************)
Unknown == <<"U", "n", "k", "n", "o", "w", "n">>
BoundingBox == <<"b", "o", "u", "n", "d", "i", "n", "g", " ", "b", "o", "x">>
AddressNotFound == <<"A", "d", "d", "r", "e", "s", "s", " ", "n", "o", "t", " ",
                     "f", "o", "u", "n", "d">>

\* f"Coordinates: ({lat}, {lon})"
CoordinatesString(key) ==
    <<"C", "o", "o", "r", "d", "i", "n", "a", "t", "e", "s", ":", " ", "(">>
        \o Digits(key[1]) \o <<",", " ">> \o Digits(key[2]) \o <<")">>

\* f"within {radius / 1000} km"; every radius is a multiple of 1000
WithinKm(radius) ==
    <<"w", "i", "t", "h", "i", "n", " ">> \o Digits(radius \div 1000)
        \o <<".", "0", " ", "k", "m">>

\* f"{area_name}, {district}, {state}, {country}"
FullAddress(area_name, district, state, country) ==
    Join(<<area_name, district, state, country>>)

(***************************************************************************)
(* Nodes of the spatial backend: tags (a mapping) and coordinates.          *)
(***************************************************************************)
Node(tags, lat, lon) == [tags |-> tags, lat |-> lat, lon |-> lon]

\* tags.get(k)
TagGet(tags, k) == IF k \in DOMAIN tags THEN Str(tags[k]) ELSE Null
\* tags.get(k, default)
TagGetOr(tags, k, default) == IF k \in DOMAIN tags THEN tags[k] ELSE default

AddrKeys == <<"addr:housenumber", "addr:street", "addr:city", "addr:state",
              "addr:postcode">>

\* the address the first pass derives from the tags, or None
TagAddress(tags) ==
    LET full == TagGet(tags, "addr:full")
        present == SelectSeq(AddrKeys, LAMBDA k : Truthy(TagGet(tags, k)))
        components == [i \in 1..Len(present) |-> tags[present[i]]]
    IN  IF Truthy(full) THEN full
        ELSE IF components # <<>> THEN Str(Join(components))
        ELSE Null

\* the distance of the first pass: computed only when both reference
\* coordinates are truthy
Distance(ref, lat, lon) ==
    IF ref.some /\ TruthyNum(ref.v[1]) /\ TruthyNum(ref.v[2])
    THEN Num(geodesic(ref.v, <<lat, lon>>))
    ELSE NoNum

\* the facility dictionary built from one node
Facility(node, found_in, ref) ==
    [name |-> TagGetOr(node.tags, "name", Unknown),
     type |-> TagGetOr(node.tags, "healthcare",
                       TagGetOr(node.tags, "amenity", Unknown)),
     lat |-> node.lat,
     lon |-> node.lon,
     address |-> TagAddress(node.tags),
     found_in |-> found_in,
     distance |-> Distance(ref, node.lat, node.lon)]

\* first pass of node_to_medical_facility: the facilities, in node order
FirstPass(nodes, found_in, ref) ==
    [i \in 1..Len(nodes) |-> Facility(nodes[i], found_in, ref)]

\* the indices of the facilities queued for reverse geocoding, in order
NeedGeocode(facs) ==
    SelectSeq([i \in 1..Len(facs) |-> i], LAMBDA i : ~Truthy(facs[i].address))

\* coords_to_geocode as the tasks submitted to the executor
Submit(facs) ==
    LET need == NeedGeocode(facs)
    IN  [j \in 1..Len(need) |->
            [idx |-> need[j],
             key |-> <<facs[need[j]].lat, facs[need[j]].lon>>,
             st |-> "queued",
             address |-> <<>>,
             how |-> "none"]]

\* results collected in completion order: the facility that got its address
\* moves to the end of the list
MatchFirstCompletionOrder(facs, key, address) ==
    IF \E i \in 1..Len(facs) : <<facs[i].lat, facs[i].lon>> = key
    THEN LET i == CHOOSE k \in 1..Len(facs) :
                    /\ <<facs[k].lat, facs[k].lon>> = key
                    /\ \A m \in 1..(k - 1) : <<facs[m].lat, facs[m].lon>> # key
         IN  Append(SubSeq(facs, 1, i - 1) \o SubSeq(facs, i + 1, Len(facs)),
                    [facs[i] EXCEPT !.address = Str(address)])
    ELSE facs

\* the loop body after as_completed: the first facility at the key gets the
\* address
MatchFirst(facs, key, address) ==
    IF \E i \in 1..Len(facs) : <<facs[i].lat, facs[i].lon>> = key
    THEN LET i == CHOOSE k \in 1..Len(facs) :
                    /\ <<facs[k].lat, facs[k].lon>> = key
                    /\ \A m \in 1..(k - 1) : <<facs[m].lat, facs[m].lon>> # key
         IN  [facs EXCEPT ![i].address = Str(address)]
    ELSE facs

\* the sort key of query_hospitals_around: h["distance"] or float('inf')
SortKey(h) ==
    IF h.distance.some /\ TruthyNum(h.distance.v) THEN h.distance.v ELSE Inf

RECURSIVE InsertSorted(_, _)
InsertSorted(h, sorted) ==
    IF sorted = <<>> THEN <<h>>
    ELSE IF SortKey(sorted[Len(sorted)]) <= SortKey(h) THEN Append(sorted, h)
    ELSE Append(InsertSorted(h, SubSeq(sorted, 1, Len(sorted) - 1)),
                sorted[Len(sorted)])

RECURSIVE SortByDistance(_)
\* list.sort(key=...): stable
SortByDistance(hs) ==
    IF hs = <<>> THEN <<>>
    ELSE InsertSorted(hs[Len(hs)], SortByDistance(SubSeq(hs, 1, Len(hs) - 1)))

\* the district's facilities returned without the filter
Unfiltered(hospitals, area_name) == hospitals

\* [h for h in hospitals if area_name.lower() in h["address"].lower()];
\* evaluated only when no address is None
filter_by_address(hospitals, area_name) ==
    SelectSeq(hospitals,
              LAMBDA h : Contains(Lower(area_name), Lower(h.address.v)))

\* h["address"].lower() raises AttributeError on a None address
FilterRaises(hospitals) ==
    \E i \in 1..Len(hospitals) : ~hospitals[i].address.some

(***************************************************************************)
(* The environment: requests, the spatial backend and the geocoder.         *)
(***************************************************************************)
Searches == {1, 2}

Areas == {<<"a", "B">>, <<"C", "d">>}
District == <<"D", "i">>
State == <<"S", "t">>
Country == <<"J", "p">>

\* the point the forward geocoder knows for an address: the service is
\* static for the lifetime of the process
Location(full_address) ==
    IF full_address = FullAddress(<<"a", "B">>, District, State, Country)
    THEN <<1, 1>>
    ELSE <<0, 1>>

\* the address the reverse geocoder knows at a coordinate pair
RealAddress(key) ==
    IF key = <<1, 1>> THEN <<"A", "b", " ", "R", "d">> ELSE <<"Z", "z">>

H1 == Node(("name" :> <<"H", "1">>) @@ ("amenity" :> <<"h", "o", "s", "p">>), 1, 1)
H2 == Node(("name" :> <<"H", "2">>) @@ ("amenity" :> <<"d", "o", "c">>)
               @@ ("healthcare" :> <<"c", "l", "i", "n">>), 1, 1)
H3 == Node(("name" :> <<"H", "3">>), 2, 1)
H4 == Node(("name" :> <<"H", "4">>) @@ ("addr:full" :> <<"1", " ", "A", "B", " ", "S", "t">>),
           1, 1)
H5 == Node(("addr:full" :> <<>>) @@ ("addr:street" :> <<"C", "D">>)
               @@ ("addr:city" :> <<"X", "y">>) @@ ("addr:state" :> <<>>), 3, 2)

\* more facilities than the cap, every one with an address tag, farthest first
LongList ==
    [i \in 1..(MaxResults + ExtraNodes) |->
        Node(("name" :> (<<"L">> \o Digits(i)))
                 @@ ("addr:full" :> (<<"N", "o", " ">> \o Digits(i))),
             MaxResults + ExtraNodes + 2 - i, 1)]

\* the node lists the backend answers each query shape with
AreaLists == {<<>>, <<H1>>, <<H1, H2>>, <<H3, H1>>, <<H4, H1>>, <<H5, H4>>}
BoxLists == {<<>>, <<H1>>, <<H5, H4>>}
AroundLists == {<<>>, <<H1>>, <<H4, H5>>, LongList}

\* what the try block of a query function can meet: the nodes of the
\* backend, a backend failure, or an unexpected failure
Responses(lists) ==
    [kind : {"nodes"}, nodes : lists]
        \cup [kind : {"backend", "unexpected"}, nodes : {<<>>}]

\* what geocode(full_address) can do: a location, None, or raise
GeocodeOutcomes == {"location", "none", "raised"}

\* the environment of one search at a time: every area, every node list and
\* both kinds of failure
Env ==
    [areas |-> Areas,
     area |-> Responses(AreaLists),
     box |-> Responses(BoxLists),
     around |-> Responses(AroundLists)]

\* the environment of the concurrent searches: one address, one node without
\* an address, and a backend that finds it at the first radius at the latest
ConcEnv ==
    [areas |-> {<<"a", "B">>},
     area |-> [kind : {"nodes"}, nodes : {<<>>, <<H1>>}],
     box |-> [kind : {"nodes"}, nodes : {<<>>, <<H1>>}],
     around |-> [kind : {"nodes"}, nodes : {<<H1>>}]]

\* the longest node list, and so the most futures of one batch
MaxBatch == MaxResults + ExtraNodes

\* what reverse_geocode(...) can do: a location, None, or raise
ReverseOutcomes == {"location", "none", "raised"}

MinDelayTicks == min_delay_seconds * TicksPerSecond

(***************************************************************************)
(* State.                                                                   *)
(***************************************************************************)
VARIABLES
    coords_cache,           \* full address -> (lat, lon)
    reverse_cache,          \* (lat, lon) -> address string
    rate_limit_semaphore,   \* the value of threading.Semaphore(1)
    elapsed,                \* ticks since the reverse RateLimiter's last call,
                            \* saturating at MinDelayTicks
    recent,                 \* recent[k]: reverse calls dispatched k-1 ticks ago
    geocoded,               \* the addresses sent to the forward geocoder
    located,                \* the addresses it returned a location for
    pc,                     \* where each search is
    area,                   \* area_name of the request
    coords,                 \* coords of get_hospitals
    current_radius,
    stage,                  \* the stage whose query a search is in
    nodes,                  \* result.nodes of the last query
    facilities,             \* facilities of node_to_medical_facility
    tasks,                  \* the futures of the executor
    results,                \* what each stage's query function returned
    outcome,                \* how the last try block ended
    ret,                    \* what get_hospitals returned or raised
    response,               \* the HTTP status of the handler
    calls                   \* the outbound calls of the search, in order

shared == <<coords_cache, reverse_cache, rate_limit_semaphore, elapsed, recent,
            geocoded, located>>
batch == <<stage, nodes, facilities, tasks>>
flow == <<pc, area, coords, current_radius, results, outcome, ret, response,
          calls>>
vars == <<shared, batch, flow>>

EmptyMap == [x \in {} |-> x]
Put(m, k, v) == [x \in DOMAIN m \cup {k} |-> IF x = k THEN v ELSE m[x]]

\* a lookup whose result is never stored
RememberNothing(cache, full_address, point) == cache

\* coords_cache[full_address] = coords
Remember(cache, full_address, point) == Put(cache, full_address, point)

NoReturn == [kind |-> "none", list |-> <<>>]
Returned(list) == [kind |-> "list", list |-> list]
Raised == [kind |-> "raised", list |-> <<>>]

NoResults == [named |-> <<>>, bbox |-> <<>>, radius |-> <<>>, parent |-> <<>>]

Init ==
    /\ coords_cache = EmptyMap
    /\ reverse_cache = EmptyMap
    /\ rate_limit_semaphore = SemaphoreValue
    /\ elapsed = MinDelayTicks
    /\ recent = [k \in 1..TicksPerSecond |-> 0]
    /\ geocoded = {}
    /\ located = {}
    /\ pc = [s \in Searches |-> "idle"]
    /\ area = [s \in Searches |-> <<>>]
    /\ coords = [s \in Searches |-> NoCoords]
    /\ current_radius = [s \in Searches |-> 0]
    /\ stage = [s \in Searches |-> "none"]
    /\ nodes = [s \in Searches |-> <<>>]
    /\ facilities = [s \in Searches |-> <<>>]
    /\ tasks = [s \in Searches |-> <<>>]
    /\ results = [s \in Searches |-> NoResults]
    /\ outcome = [s \in Searches |-> "none"]
    /\ ret = [s \in Searches |-> NoReturn]
    /\ response = [s \in Searches |-> 0]
    /\ calls = [s \in Searches |-> <<>>]

(***************************************************************************)
(* get_hospitals: what the orchestrator does with a stage's result.         *)
(***************************************************************************)
Go(to, radius) == [pc |-> to, ret |-> NoReturn, radius |-> radius]
Return(list, radius) == [pc |-> "done", ret |-> Returned(list), radius |-> radius]
Raise(radius) == [pc |-> "done", ret |-> Raised, radius |-> radius]

\* a missing early return: Step 1 falls through to geocoding
AfterNamedFallsThrough(hospitals, radius) == Go("get_coords", radius)

\* Step 1
AfterNamed(hospitals, radius) ==
    IF hospitals # <<>> THEN Return(hospitals, radius)
    ELSE Go("get_coords", radius)

\* a missing "if coords:": the bounding box is queried whatever get_coords
\* returned
AfterCoordsUnguarded(c) == "bbox"

\* Step 2: "if coords:" on what get_coords returned
AfterCoords(c) == IF c.some THEN "bbox" ELSE "parent"

\* a missing early return: the bounding box's facilities are dropped and the
\* radius escalation starts
AfterBBoxFallsThrough(hospitals, radius) == Go("radius", first_radius)

\* Step 2, the bounding box
AfterBBox(hospitals, radius) ==
    IF hospitals # <<>> THEN Return(hospitals, radius)
    ELSE Go("radius", first_radius)

\* a loop that doubles the radius instead of adding radius_step
AfterRadiusDoubling(hospitals, radius) ==
    IF hospitals # <<>> THEN Return(Take(hospitals, MaxResults), radius)
    ELSE IF 2 * radius <= max_radius
         THEN Go("radius", 2 * radius)
         ELSE Go("parent", 2 * radius)

\* Step 3: one turn of the while loop
AfterRadius(hospitals, radius) ==
    IF hospitals # <<>> THEN Return(Take(hospitals, MaxResults), radius)
    ELSE IF radius + radius_step <= max_radius
         THEN Go("radius", radius + radius_step)
         ELSE Go("parent", radius + radius_step)

\* Steps 4 and 5
AfterParent(parent_hospitals, area_name, radius) ==
    IF FilterRaises(parent_hospitals) THEN Raise(radius)
    ELSE Return(filter_by_address(parent_hospitals, area_name), radius)

Orchestrate(st, hospitals, area_name, radius) ==
    CASE st = "named" -> AfterNamed(hospitals, radius)
      [] st = "bbox" -> AfterBBox(hospitals, radius)
      [] st = "radius" -> AfterRadius(hospitals, radius)
      [] st = "parent" -> AfterParent(hospitals, area_name, radius)

\* app.py, hospitals: the status of the response
HttpStatus(r) ==
    IF r.kind = "raised" THEN 500
    ELSE IF r.list = <<>> THEN 404
    ELSE 200

\* what a query function returns from its facilities
StageResult(st, facs) == IF st = "radius" THEN SortByDistance(facs) ELSE facs

\* found_in of a stage's facilities
Label(st, area_name, radius) ==
    CASE st = "named" -> area_name
      [] st = "parent" -> District
      [] st = "bbox" -> BoundingBox
      [] st = "radius" -> WithinKm(radius)

\* the reference point a stage passes to node_to_medical_facility
RefOf(st, c) == IF st \in {"bbox", "radius"} THEN c ELSE NoCoords

\* the query function of stage st returns hospitals to get_hospitals
StageReturn(s, st, hospitals) ==
    LET o == Orchestrate(st, hospitals, area[s], current_radius[s])
    IN  /\ pc' = [pc EXCEPT ![s] = o.pc]
        /\ ret' = [ret EXCEPT ![s] = o.ret]
        /\ response' = [response EXCEPT ![s] =
                            IF o.pc = "done" THEN HttpStatus(o.ret) ELSE @]
        /\ current_radius' = [current_radius EXCEPT ![s] = o.radius]
        /\ results' = [results EXCEPT ![s][st] = hospitals]

\* a query function without its except clause: the failure leaves
\* get_hospitals and reaches its caller
ExceptPropagates(s, st) ==
    /\ pc' = [pc EXCEPT ![s] = "done"]
    /\ ret' = [ret EXCEPT ![s] = Raised]
    /\ response' = [response EXCEPT ![s] = HttpStatus(Raised)]
    /\ UNCHANGED <<current_radius, results>>

\* except Exception as e: print(...); return []
ExceptReturnsEmpty(s, st) == StageReturn(s, st, <<>>)

\* the try block of a query function up to the executor: api.query and the
\* first pass of node_to_medical_facility
RunQuery(s, st, r) ==
    /\ calls' = [calls EXCEPT ![s] =
                    Append(@, [op |-> st, radius |-> current_radius[s]])]
    /\ outcome' = [outcome EXCEPT ![s] = r.kind]
    /\ stage' = [stage EXCEPT ![s] = st]
    /\ UNCHANGED <<area, coords, shared>>
    /\ IF r.kind = "nodes"
       THEN LET facs == FirstPass(r.nodes,
                                  Label(st, area[s], current_radius[s]),
                                  RefOf(st, coords[s]))
                futures == Submit(facs)
            IN  /\ nodes' = [nodes EXCEPT ![s] = r.nodes]
                /\ facilities' = [facilities EXCEPT ![s] = facs]
                /\ tasks' = [tasks EXCEPT ![s] = futures]
                /\ IF futures = <<>>
                   THEN StageReturn(s, st, StageResult(st, facs))
                   ELSE /\ pc' = [pc EXCEPT ![s] = "enrich"]
                        /\ UNCHANGED <<ret, response, current_radius, results>>
       ELSE \* except Exception: return []
            /\ nodes' = [nodes EXCEPT ![s] = <<>>]
            /\ facilities' = [facilities EXCEPT ![s] = <<>>]
            /\ tasks' = [tasks EXCEPT ![s] = <<>>]
            /\ ExceptReturnsEmpty(s, st)

(***************************************************************************)
(* Actions of a search.                                                     *)
(***************************************************************************)
\* app.py hospitals(): a request arrives and get_hospitals starts
Request(s, areas) ==
    /\ pc[s] \in {"idle", "done"}
    /\ \E a \in areas : area' = [area EXCEPT ![s] = a]
    /\ pc' = [pc EXCEPT ![s] = "named"]
    /\ coords' = [coords EXCEPT ![s] = NoCoords]
    /\ current_radius' = [current_radius EXCEPT ![s] = 0]
    /\ stage' = [stage EXCEPT ![s] = "none"]
    /\ nodes' = [nodes EXCEPT ![s] = <<>>]
    /\ facilities' = [facilities EXCEPT ![s] = <<>>]
    /\ tasks' = [tasks EXCEPT ![s] = <<>>]
    /\ results' = [results EXCEPT ![s] = NoResults]
    /\ outcome' = [outcome EXCEPT ![s] = "none"]
    /\ ret' = [ret EXCEPT ![s] = NoReturn]
    /\ response' = [response EXCEPT ![s] = 0]
    /\ calls' = [calls EXCEPT ![s] = <<>>]
    /\ UNCHANGED shared

query_hospitals_in_area(s, responses) ==
    /\ pc[s] \in {"named", "parent"}
    /\ \E r \in responses : RunQuery(s, pc[s], r)

query_hospitals_in_bbox(s, responses) ==
    /\ pc[s] = "bbox"
    /\ \E r \in responses : RunQuery(s, "bbox", r)

query_hospitals_around(s, responses) ==
    /\ pc[s] = "radius"
    /\ \E r \in responses : RunQuery(s, "radius", r)

\* get_coords up to the cache lookup
get_coords(s) ==
    LET full_address == FullAddress(area[s], District, State, Country)
    IN  /\ pc[s] = "get_coords"
        /\ calls' = [calls EXCEPT ![s] = Append(@, [op |-> "get_coords", radius |-> 0])]
        /\ IF full_address \in DOMAIN coords_cache
           THEN /\ coords' = [coords EXCEPT ![s] =
                                 Coords(coords_cache[full_address][1],
                                        coords_cache[full_address][2])]
                /\ pc' = [pc EXCEPT ![s] = AfterCoords(coords'[s])]
           ELSE /\ pc' = [pc EXCEPT ![s] = "geocode"]
                /\ UNCHANGED coords
        /\ UNCHANGED <<area, current_radius, results, outcome, ret, response,
                       shared, batch>>

\* get_coords from the call of the forward geocoder to its return
geocode(s) ==
    LET full_address == FullAddress(area[s], District, State, Country)
    IN  /\ pc[s] = "geocode"
        /\ \E g \in GeocodeOutcomes :
              /\ IF g = "location"
                 THEN /\ coords_cache' = Remember(coords_cache, full_address,
                                                  Location(full_address))
                      /\ coords' = [coords EXCEPT ![s] =
                                       Coords(Location(full_address)[1],
                                              Location(full_address)[2])]
                      /\ located' = located \cup {full_address}
                 ELSE /\ coords' = [coords EXCEPT ![s] = NoCoords]
                      /\ UNCHANGED <<coords_cache, located>>
              /\ pc' = [pc EXCEPT ![s] = AfterCoords(coords'[s])]
        /\ geocoded' = geocoded \cup {full_address}
        /\ calls' = [calls EXCEPT ![s] = Append(@, [op |-> "geocode", radius |-> 0])]
        /\ UNCHANGED <<area, current_radius, results, outcome, ret, response,
                       reverse_cache, rate_limit_semaphore, elapsed, recent,
                       batch>>

(***************************************************************************)
(* The second pass of node_to_medical_facility: the executor's workers run  *)
(* fetch_reverse_geocode, the calling thread applies each completed result. *)
(***************************************************************************)
Futures(s) == 1..Len(tasks[s])

\* the workers of the batch that are inside fetch_reverse_geocode
Running(s) ==
    Cardinality({j \in Futures(s) :
                    tasks[s][j].st \in {"waiting", "acquired", "calling"}})

SetTask(s, j, t) == tasks' = [tasks EXCEPT ![s][j] = t]

\* the address fetch_reverse_geocode derives from the geocoder's answer
ReverseAddress(key, o) ==
    CASE o = "location" -> RealAddress(key)
      [] o = "none" -> AddressNotFound
      [] o = "raised" -> CoordinatesString(key)

\* a worker enters fetch_reverse_geocode: the cache lookup
fetch_reverse_geocode(s, j) ==
    LET t == tasks[s][j]
    IN  /\ pc[s] = "enrich"
        /\ j \in Futures(s)
        /\ t.st = "queued"
        /\ Running(s) < max_workers
        /\ IF t.key \in DOMAIN reverse_cache
           THEN SetTask(s, j, [t EXCEPT !.st = "completed",
                                        !.address = reverse_cache[t.key],
                                        !.how = "cache"])
           ELSE SetTask(s, j, [t EXCEPT !.st = "waiting"])
        /\ UNCHANGED <<shared, flow, stage, nodes, facilities>>

\* with rate_limit_semaphore: __enter__
acquire(s, j) ==
    LET t == tasks[s][j]
    IN  /\ pc[s] = "enrich"
        /\ j \in Futures(s)
        /\ t.st = "waiting"
        /\ rate_limit_semaphore > 0
        /\ rate_limit_semaphore' = rate_limit_semaphore - 1
        /\ SetTask(s, j, [t EXCEPT !.st = "acquired"])
        /\ UNCHANGED <<coords_cache, reverse_cache, elapsed, recent, geocoded,
                       located, flow, stage, nodes, facilities>>

\* reverse_geocode(...): the RateLimiter lets the call out once
\* min_delay_seconds have passed since the last one
dispatch(s, j) ==
    LET t == tasks[s][j]
    IN  /\ pc[s] = "enrich"
        /\ j \in Futures(s)
        /\ t.st = "acquired"
        /\ elapsed >= MinDelayTicks
        /\ elapsed' = 0
        /\ recent' = [recent EXCEPT ![1] = @ + 1]
        /\ SetTask(s, j, [t EXCEPT !.st = "calling"])
        /\ UNCHANGED <<coords_cache, reverse_cache, rate_limit_semaphore,
                       geocoded, located, flow, stage, nodes, facilities>>

\* a gate that is never given back
NoRelease(semaphore) == semaphore

\* with rate_limit_semaphore: __exit__, on return and on exception alike
Release(semaphore) == semaphore + 1

\* the geocoder answers: the address is cached, the semaphore released and
\* the future completes
reply(s, j) ==
    LET t == tasks[s][j]
    IN  /\ pc[s] = "enrich"
        /\ j \in Futures(s)
        /\ t.st = "calling"
        /\ \E o \in ReverseOutcomes :
              /\ reverse_cache' = Put(reverse_cache, t.key, ReverseAddress(t.key, o))
              /\ SetTask(s, j, [t EXCEPT !.st = "completed",
                                           !.address = ReverseAddress(t.key, o),
                                           !.how = o])
        /\ rate_limit_semaphore' = Release(rate_limit_semaphore)
        /\ UNCHANGED <<coords_cache, elapsed, recent, geocoded, located, flow, stage,
                       nodes, facilities>>

\* for future in as_completed(...): one completed future is applied
apply(s, j) ==
    LET t == tasks[s][j]
    IN  /\ pc[s] = "enrich"
        /\ j \in Futures(s)
        /\ t.st = "completed"
        /\ facilities' = [facilities EXCEPT ![s] = MatchFirst(@, t.key, t.address)]
        /\ SetTask(s, j, [t EXCEPT !.st = "applied"])
        /\ UNCHANGED <<shared, flow, stage, nodes>>

\* node_to_medical_facility returns and the query function with it
enriched(s) ==
    /\ pc[s] = "enrich"
    /\ \A j \in Futures(s) : tasks[s][j].st = "applied"
    /\ StageReturn(s, stage[s], StageResult(stage[s], facilities[s]))
    /\ UNCHANGED <<shared, batch, area, coords, outcome, calls>>

\* time passes
Tick ==
    /\ \/ elapsed < MinDelayTicks
       \/ \E k \in 1..TicksPerSecond : recent[k] # 0
    /\ elapsed' = IF elapsed < MinDelayTicks THEN elapsed + 1 ELSE elapsed
    /\ recent' = [k \in 1..TicksPerSecond |-> IF k = 1 THEN 0 ELSE recent[k - 1]]
    /\ UNCHANGED <<coords_cache, reverse_cache, rate_limit_semaphore, geocoded,
                   located, batch, flow>>

\* the steps of a search that is under way
Run(s, env) ==
    \/ query_hospitals_in_area(s, env.area)
    \/ get_coords(s)
    \/ geocode(s)
    \/ query_hospitals_in_bbox(s, env.box)
    \/ query_hospitals_around(s, env.around)
    \/ enriched(s)
    \/ \E j \in 1..MaxBatch :
          \/ fetch_reverse_geocode(s, j)
          \/ acquire(s, j)
          \/ dispatch(s, j)
          \/ reply(s, j)
          \/ apply(s, j)

Step(s, env) == Request(s, env.areas) \/ Run(s, env)

\* one search at a time, in every environment
Next == Tick \/ Step(1, Env)

Spec == Init /\ [][Next]_vars

\* the searches run concurrently
NextConc == Tick \/ \E s \in Searches : Step(s, ConcEnv)

SpecConc == Init /\ [][NextConc]_vars

\* one search at a time, where time passes, every external call returns and
\* every thread that can run eventually does
SpecFair == Spec /\ WF_vars(Tick) /\ WF_vars(Run(1, Env))

(***************************************************************************)
(* Properties.                                                              *)
(***************************************************************************)
Call(op, radius) == [op |-> op, radius |-> radius]
Ops(s) == {calls[s][i].op : i \in 1..Len(calls[s])}
LastOp(s) == IF calls[s] = <<>> THEN "none" ELSE calls[s][Len(calls[s])].op

\* C1: whenever the named-area query of a search returned at least one
\* facility, the search is over, get_hospitals returned exactly that list,
\* and the named-area query is the only outbound call of the search: no
\* get_coords, no bounding-box, radius or parent-area query.
C1_NamedAreaResultReturnedAsIs ==
    \A s \in Searches :
        results[s].named # <<>> =>
            /\ pc[s] = "done"
            /\ ret[s] = Returned(results[s].named)
            /\ calls[s] = <<Call("named", 0)>>

C1_Witness ==
    \E s \in Searches :
        /\ pc[s] = "done"
        /\ Len(results[s].named) = 2
        /\ ret[s].kind = "list"
        /\ Len(ret[s].list) = 2

\* the sort order the radius stage is meant to have: a missing distance
\* counts as +infinity, a distance of 0 as 0
DistanceOrInf(h) == IF h.distance.some THEN h.distance.v ELSE Inf

\* C2: a list returned from the radius stage is sorted ascending by distance
\* (a missing distance last) and has at most 10 facilities, for every
\* distance, 0 included.
C2_RadiusResultSortedAndCapped ==
    \A s \in Searches :
        (pc[s] = "done" /\ ret[s].kind = "list" /\ LastOp(s) = "radius") =>
            /\ Len(ret[s].list) <= MaxResults
            /\ \A i, j \in 1..Len(ret[s].list) :
                  i < j => DistanceOrInf(ret[s].list[i]) <= DistanceOrInf(ret[s].list[j])

\* get_coords of search s has returned None
GeocodingFailed(s) ==
    /\ "get_coords" \in Ops(s)
    /\ pc[s] \notin {"get_coords", "geocode"}
    /\ ~coords[s].some

\* C3: once get_coords has returned None, the only call the search makes is
\* the parent-area query: no bounding-box and no radius query is issued.
C3_GeocodingFailureSkipsToParentArea ==
    \A s \in Searches :
        GeocodingFailed(s) =>
            \/ /\ calls[s] = <<Call("named", 0), Call("get_coords", 0),
                               Call("geocode", 0)>>
               /\ pc[s] = "parent"
            \/ /\ calls[s] = <<Call("named", 0), Call("get_coords", 0),
                               Call("geocode", 0), Call("parent", 0)>>
               /\ pc[s] \in {"enrich", "done"}
               /\ stage[s] = "parent"

C3_Witness ==
    \E s \in Searches :
        /\ GeocodingFailed(s)
        /\ pc[s] = "done"
        /\ LastOp(s) = "parent"
        /\ geocoded # {}

\* the full address get_coords builds for search s
Address(s) == FullAddress(area[s], District, State, Country)

\* C4, as claimed: the forward geocoder is called at most once for an address
\* string, whatever the first call's outcome: no call goes out for an address
\* that was sent to the geocoder before.
C4_GeocoderCalledOncePerAddress ==
    [][\A s \in Searches :
          (pc[s] = "geocode" /\ pc'[s] # "geocode") => Address(s) \notin geocoded]_vars

\* C4, amended: a get_coords call that starts once the geocoder has returned
\* a location for the same address string is answered from coords_cache: it
\* returns the cached coordinates and the geocoder is not called.
C4_CachedLocationIsNotGeocodedAgain ==
    [][\A s \in Searches :
          (pc[s] = "get_coords" /\ pc'[s] # "get_coords" /\ Address(s) \in located) =>
              /\ pc'[s] = "bbox"
              /\ coords'[s] = Coords(Location(Address(s))[1], Location(Address(s))[2])
              /\ geocoded' = geocoded]_vars

C4_Witness ==
    \E s \in Searches :
        /\ Address(s) \in located
        /\ LastOp(s) = "get_coords"
        /\ pc[s] = "bbox"
        /\ coords[s].some

RECURSIVE Sum(_)
Sum(q) == IF q = <<>> THEN 0 ELSE q[1] + Sum(Tail(q))

\* C5: in every window of one second at most one reverse-geocode call is
\* dispatched, whatever the number of workers and of concurrent searches.
C5_OneReverseCallPerSecond == Sum(recent) <= 1

C5_Witness ==
    \E s, t \in Searches :
        /\ s # t
        /\ Sum(recent) = 1
        /\ \E j \in Futures(s) : tasks[s][j].st = "acquired"
        /\ \E k \in Futures(t) :
              tasks[t][k].st = "completed" /\ tasks[t][k].how \in ReverseOutcomes

\* get_hospitals of search s returned a list from the parent-area stage
FromParent(s) == pc[s] = "done" /\ LastOp(s) = "parent" /\ ret[s].kind = "list"

\* the address of h contains the area name, case-insensitively
Matches(h, area_name) ==
    h.address.some /\ Contains(Lower(area_name), Lower(h.address.v))

\* C6: of a list returned from the parent-area stage, every facility has an
\* address containing the area name case-insensitively, the list is an
\* order-preserving selection of the district query's facilities, and no
\* facility of the district whose address lacks the area name is selected.
C6_ParentAreaResultIsTheAddressFilter ==
    \A s \in Searches :
        FromParent(s) =>
            LET district == results[s].parent
                kept == ret[s].list
            IN  /\ \A i \in 1..Len(kept) : Matches(kept[i], area[s])
                /\ \E f \in [1..Len(kept) -> 1..Len(district)] :
                      /\ \A i, j \in 1..Len(kept) : i < j => f[i] < f[j]
                      /\ \A i \in 1..Len(kept) : kept[i] = district[f[i]]
                      /\ \A k \in 1..Len(district) :
                            ~Matches(district[k], area[s]) =>
                                \A i \in 1..Len(kept) : f[i] # k

C6_Witness ==
    \E s \in Searches :
        /\ FromParent(s)
        /\ Len(results[s].parent) = 2
        /\ Len(ret[s].list) = 1

\* the batch of search s is over: node_to_medical_facility has returned
BatchOver(s) == pc[s] # "enrich" /\ tasks[s] # <<>>

\* C7: after a batch, the facility of every node without address tags whose
\* reverse-geocode call raised has an address, a string containing the
\* node's coordinates, and reverse_cache has an entry for those coordinates.
C7_FailedLookupYieldsCoordinateAddress ==
    \A s \in Searches :
        BatchOver(s) =>
            \A j \in Futures(s) :
                tasks[s][j].how = "raised" =>
                    LET f == facilities[s][tasks[s][j].idx]
                    IN  /\ f.address.some
                        /\ Contains(Digits(f.lat) \o <<",", " ">> \o Digits(f.lon),
                                    f.address.v)
                        /\ <<f.lat, f.lon>> \in DOMAIN reverse_cache

\* C8: at every moment of a batch and after it, the i-th facility is the one
\* built from the i-th node: same name, type and coordinates.
C8_FacilitiesInNodeOrder ==
    \A s \in Searches :
        /\ Len(facilities[s]) = Len(nodes[s])
        /\ \A i \in 1..Len(nodes[s]) :
              /\ facilities[s][i].name = TagGetOr(nodes[s][i].tags, "name", Unknown)
              /\ facilities[s][i].lat = nodes[s][i].lat
              /\ facilities[s][i].lon = nodes[s][i].lon
              /\ facilities[s][i].type =
                    Facility(nodes[s][i], <<>>, NoCoords).type

\* the lookup of the second node was applied before the first completed
C8_Witness ==
    \E s \in Searches :
        /\ Len(tasks[s]) = 2
        /\ tasks[s][1].key # tasks[s][2].key
        /\ tasks[s][2].st = "applied"
        /\ tasks[s][1].st \in {"waiting", "acquired", "calling"}

\* no stage of search s yielded a matching facility
Exhausted(s) ==
    /\ pc[s] = "done"
    /\ LastOp(s) = "parent"
    /\ results[s].named = <<>>
    /\ results[s].bbox = <<>>
    /\ results[s].radius = <<>>
    /\ \A i \in 1..Len(results[s].parent) : ~Matches(results[s].parent[i], area[s])

\* C9: a search that no stage satisfied returns the empty list and does not
\* raise: the handler answers 404.
C9_ExhaustedSearchReturnsEmpty ==
    \A s \in Searches :
        Exhausted(s) => ret[s] = Returned(<<>>) /\ response[s] = 404

\* C10: an unexpected failure inside a stage's try block ends the search
\* with a raised failure, which the handler answers with 500.
C10_UnexpectedFailureIsRaised ==
    \A s \in Searches :
        outcome[s] = "unexpected" =>
            pc[s] = "done" /\ ret[s] = Raised /\ response[s] = 500

\* C11: right after a named-area, bounding-box or radius query met a backend
\* failure, the stage's result is the empty list, get_hospitals has neither
\* returned nor raised, and the search stands where an empty node list
\* leaves it: at get_coords after the named area, at the 5 km radius query
\* after the bounding box, at the next radius or, after 50 km, at the
\* parent-area query.
C11_BackendFailureIsContained ==
    \A s \in Searches :
        (/\ outcome[s] = "backend"
         /\ LastOp(s) = stage[s]
         /\ stage[s] \in {"named", "bbox", "radius"}) =>
            LET r == calls[s][Len(calls[s])].radius
            IN  /\ results[s][stage[s]] = <<>>
                /\ ret[s] = NoReturn
                /\ response[s] = 0
                /\ pc[s] = CASE stage[s] = "named" -> "get_coords"
                              [] stage[s] = "bbox" -> "radius"
                              [] stage[s] = "radius" ->
                                    IF r < max_radius THEN "radius" ELSE "parent"
                /\ current_radius[s] = CASE stage[s] = "named" -> 0
                                          [] stage[s] = "bbox" -> first_radius
                                          [] stage[s] = "radius" -> r + radius_step

C11_Witness ==
    \E s \in Searches :
        /\ outcome[s] = "backend"
        /\ LastOp(s) = "radius"
        /\ calls[s][Len(calls[s])].radius = 2 * radius_step
        /\ pc[s] = "radius"
        /\ current_radius[s] = 3 * radius_step

\* the reverse-geocode calls that are out at the service: dispatched and not
\* yet answered
InFlight ==
    {<<s, j>> \in Searches \X (1..MaxBatch) :
        j \in Futures(s) /\ tasks[s][j].st = "calling"}

\* the workers inside "with rate_limit_semaphore"
InGate ==
    {<<s, j>> \in Searches \X (1..MaxBatch) :
        j \in Futures(s) /\ tasks[s][j].st \in {"acquired", "calling"}}

\* C12: at every moment at most one reverse-geocode call is in flight, over
\* all workers of all searches, and at most one worker is inside the gate.
C12_OneReverseCallInFlight ==
    /\ Cardinality(InFlight) <= 1
    /\ Cardinality(InGate) <= 1

\* a call of one search is in flight while a worker of the other search
\* waits at the gate
C12_Witness ==
    \E s, t \in Searches :
        /\ s # t
        /\ \E j \in Futures(s) : tasks[s][j].st = "calling"
        /\ \E k \in Futures(t) : tasks[t][k].st = "waiting"
        /\ rate_limit_semaphore = 0

\* C13: the reverse-geocoding service is called at most once per coordinate
\* pair: no call is in flight for a pair that reverse_cache already holds an
\* address or a placeholder for. (One call is in flight at a time and every
\* answered call leaves an entry, so a second call for a pair is a call for
\* a cached pair.)
C13_ReverseCalledOncePerCoordinate ==
    \A s \in Searches :
        \A j \in Futures(s) :
            tasks[s][j].st = "calling" => tasks[s][j].key \notin DOMAIN reverse_cache

\* the address the tags of the i-th node of search s give, or None
TagAddressOf(s, i) == TagAddress(nodes[s][i].tags)

\* C14: a batch submits a lookup for exactly the nodes whose tags give no
\* address, one each, and at every moment of the batch and after it a
\* facility whose tags give an address has that address, also when several
\* nodes share coordinates.
C14_TagAddressIsKept ==
    \A s \in Searches :
        /\ \A i \in 1..Len(nodes[s]) :
              Cardinality({j \in Futures(s) : tasks[s][j].idx = i})
                  = IF Truthy(TagAddressOf(s, i)) THEN 0 ELSE 1
        /\ \A i \in 1..Len(nodes[s]) :
              Truthy(TagAddressOf(s, i)) =>
                  facilities[s][i].address = TagAddressOf(s, i)

\* every entry of cache m is in m2 with the same value
Kept(m, m2) ==
    /\ DOMAIN m \subseteq DOMAIN m2
    /\ \A k \in DOMAIN m : m2[k] = m[k]

\* C15: no step removes a key from coords_cache or reverse_cache, and no
\* step changes the value stored under a key: a write to a key that is
\* present stores the value it already has.
C15_CacheEntriesAreStable ==
    [][Kept(coords_cache, coords_cache') /\ Kept(reverse_cache, reverse_cache')]_vars

\* the place of an outbound call in the order of the stages
StageOrder(op) ==
    CASE op = "named" -> 1
      [] op = "get_coords" -> 2
      [] op = "geocode" -> 3
      [] op = "bbox" -> 4
      [] op = "radius" -> 5
      [] op = "parent" -> 6

\* the query stages that come before the stage of call op
EarlierStages(op) ==
    CASE op \in {"named", "none"} -> {}
      [] op \in {"get_coords", "geocode", "bbox"} -> {"named"}
      [] op = "radius" -> {"named", "bbox"}
      [] op = "parent" -> {"named", "bbox", "radius"}

\* C16: the outbound calls of a search are issued in the order named area,
\* geocoding, bounding box, radius escalation, parent area, each stage at
\* most once apart from the radius escalation; when a call has been issued
\* every earlier stage has returned the empty list, and no call is issued
\* while a stage's batch is running. A non-empty result of the named-area or
\* bounding-box stage is the list get_hospitals returns, the bounding-box one
\* labelled "bounding box" and with no radius or parent-area query issued.
C16_StagesInOrder ==
    \A s \in Searches :
        /\ \A i, j \in 1..Len(calls[s]) :
              i < j =>
                  \/ StageOrder(calls[s][i].op) < StageOrder(calls[s][j].op)
                  \/ calls[s][i].op = "radius" /\ calls[s][j].op = "radius"
        /\ \A st \in EarlierStages(LastOp(s)) : results[s][st] = <<>>
        /\ pc[s] = "enrich" => LastOp(s) = stage[s]
        /\ \A st \in {"named", "bbox"} :
              results[s][st] # <<>> =>
                  /\ pc[s] = "done"
                  /\ ret[s] = Returned(results[s][st])
                  /\ LastOp(s) = st
        /\ \A i \in 1..Len(results[s].bbox) :
              results[s].bbox[i].found_in = BoundingBox

C16_Witness ==
    \E s \in Searches :
        /\ pc[s] = "done"
        /\ Len(results[s].bbox) = 2
        /\ ret[s] = Returned(results[s].bbox)
        /\ calls[s] = <<Call("named", 0), Call("get_coords", 0), Call("geocode", 0),
                        Call("bbox", 0)>>

\* the radii of the radius queries of search s, in the order issued
Radii(s) ==
    LET rs == SelectSeq(calls[s], LAMBDA c : c.op = "radius")
    IN  [k \in 1..Len(rs) |-> rs[k].radius]

\* C17: the k-th radius query of a search has radius k * 5 km, there are at
\* most ten and none above 50 km; once a radius query has returned
\* facilities the search is over, no further query was issued, and the list
\* returned is that result cut to ten facilities, each labelled with that
\* radius; the parent-area query of a search whose address was geocoded is
\* issued only after all ten radius queries, each returning the empty list.
C17_RadiusEscalation ==
    \A s \in Searches :
        /\ Len(Radii(s)) <= max_radius \div radius_step
        /\ \A k \in 1..Len(Radii(s)) :
              Radii(s)[k] = k * radius_step /\ Radii(s)[k] <= max_radius
        /\ results[s].radius # <<>> =>
              /\ pc[s] = "done"
              /\ LastOp(s) = "radius"
              /\ ret[s] = Returned(Take(results[s].radius, MaxResults))
              /\ \A i \in 1..Len(ret[s].list) :
                    ret[s].list[i].found_in = WithinKm(Radii(s)[Len(Radii(s))])
        /\ ("parent" \in Ops(s) /\ coords[s].some) =>
              /\ Len(Radii(s)) = max_radius \div radius_step
              /\ results[s].radius = <<>>

\* nine radii were empty and the tenth, 50 km, found facilities
C17_Witness ==
    \E s \in Searches :
        /\ pc[s] = "done"
        /\ LastOp(s) = "radius"
        /\ Len(Radii(s)) = max_radius \div radius_step
        /\ Len(results[s].radius) = 2
        /\ ret[s] = Returned(results[s].radius)

\* C18: every facility built by the bounding-box or radius stage, which pass
\* the geocoded coordinates as the reference point, has a distance, whatever
\* the reference latitude and longitude (0 included); every facility built
\* by the named-area or parent-area stage has none.
C18_DistanceIffReference ==
    \A s \in Searches :
        \A i \in 1..Len(facilities[s]) :
            facilities[s][i].distance.some <=> stage[s] \in {"bbox", "radius"}

\* the spatial queries search s has issued
SpatialQueries(s) ==
    SelectSeq(calls[s], LAMBDA c : c.op \in {"named", "bbox", "radius", "parent"})

\* the calls of the forward geocoder search s has made
GeocodeCalls(s) == SelectSeq(calls[s], LAMBDA c : c.op = "geocode")

\* the most spatial queries of one search: the named area, the bounding
\* box, every radius and the parent area
MaxSpatialQueries == 3 + max_radius \div radius_step

\* C19: a search issues at most 13 spatial queries and at most one call of
\* the forward geocoder; every batch that has started completes; and every
\* search that has started finishes: get_hospitals returns or raises.
C19_SearchTerminates ==
    /\ [](\A s \in Searches :
              /\ Len(SpatialQueries(s)) <= MaxSpatialQueries
              /\ Len(GeocodeCalls(s)) <= 1)
    /\ \A s \in Searches : (pc[s] = "enrich") ~> (pc[s] # "enrich")
    /\ \A s \in Searches : (pc[s] \notin {"idle", "done"}) ~> (pc[s] = "done")

\* a search is over after 13 spatial queries and a call of the geocoder, its
\* last batch having had two lookups for the same coordinates
C19_Witness ==
    \E s \in Searches :
        /\ pc[s] = "done"
        /\ Len(SpatialQueries(s)) = MaxSpatialQueries
        /\ Len(GeocodeCalls(s)) = 1
        /\ Len(tasks[s]) = 2
        /\ \A j \in Futures(s) : tasks[s][j].how \in ReverseOutcomes

\* C20: every facility of a list node_to_medical_facility has returned has
\* an address that is a string, not None, whatever the node list and the
\* order in which the lookups complete; and filter_by_address never meets a
\* None address: get_hospitals does not raise.
C20_EveryFacilityHasAnAddress ==
    \A s \in Searches :
        /\ pc[s] # "enrich" =>
              \A i \in 1..Len(facilities[s]) : facilities[s][i].address.some
        /\ ret[s] # Raised

====
